---- MODULE Spec2Model ----
(***************************************************************************)
(* The editing state machine of oxidate: Buffer (src/src/buffer.rs) and    *)
(* Editor (src/src/editor.rs).  One step of the model is one iteration of  *)
(* the loop of Editor::run: draw, read one event, classify it with         *)
(* handle_event, apply the resulting Action.                               *)
(*                                                                         *)
(* Representation.                                                         *)
(*  - A String is a sequence of one-character strings.  Characters are     *)
(*    single-byte (ASCII), so a byte index is a character index.           *)
(*  - Option<T> is a sequence of length 0 (None) or 1 (Some).              *)
(*  - A usize is an integer; a value that wrapped around below zero is     *)
(*    kept as its two's-complement residue, so usize::MAX is -1 and        *)
(*    usize::MAX - k is -(k+1).  Comparisons of usize values go through    *)
(*    ULt/ULe, which order the negative residues above all others.         *)
(*  - A u16 is an integer in 0 .. 65535; arithmetic wraps with % U16.      *)
(*  - Arithmetic overflow panics when the build has overflow checks on     *)
(*    (the debug profile) and wraps when it has not (the release profile): *)
(*    overflow_checks is chosen in Init and never changes.                 *)
(***************************************************************************)
EXTENDS Integers, Sequences, FiniteSets, TLC

VARIABLES
    lines,            \* Buffer::lines
    cur_pos,          \* Editor::cur_pos, <<column, row>>
    scur_pos,         \* Editor::scur_pos
    mode,             \* Editor::mode
    size,             \* Editor::size, <<columns, rows>>
    waiting_cmd,      \* Editor::waiting_cmd
    command_buffer,   \* Editor::command_buffer
    overflow_checks,  \* the build profile: TRUE when overflow panics
    status,           \* "running", "quit" (run returned Ok), "failed" (new or
                      \* run returned Err) or "panicked"
    act,              \* the variant of the Action the last iteration applied
    prev,             \* cur_pos, waiting_cmd and mode before that iteration,
                      \* and whether the command line held text
    saves,            \* the calls of Buffer::save made so far
    raw_mode,         \* the terminal is in raw mode
    alternate_screen, \* the terminal shows the alternate screen
    entered           \* while in Command mode: Some(the cursor and the lines
                      \* before the iteration that entered it); None otherwise

vars == <<lines, cur_pos, scur_pos, mode, size, waiting_cmd, command_buffer,
          overflow_checks, status, act, prev, saves, raw_mode,
          alternate_screen, entered>>

-----------------------------------------------------------------------------
(* Bounds of the model *)

\* Characters of a file's content, newline included, at most.
MaxFileLen == 2
\* A character is typed, in Insert or in Command mode, only while the buffer
\* and the command line together hold fewer characters than this.
MaxChars == 2
\* A line is added only while the buffer holds fewer lines than this.
MaxLines == 3
\* A step is taken only while the cursor stays within this distance of 0
\* (or, once wrapped, of usize::MAX).
MaxCursor == 3

\* Characters typed in Insert mode and found in files.
TextChars == {"a", " "}
\* Characters typed in Command mode.
CmdChars == {"q", "w", " "}
\* Characters typed in Normal mode: every key it maps.
NormalChars == {"q", "k", "j", "l", "h", "w", "b", "$", "G", "O", "o", "x",
                "i", "a", "v", ":", "d", "g"}
\* Characters typed in Visual mode: every key it maps.
VisualChars == {"h", "j", "k", "l"}
\* Terminal sizes, <<columns, rows>>.
TermSizes == {<<8, 3>>, <<16, 4>>}

-----------------------------------------------------------------------------
(* Option, usize and u16 *)

None == <<>>
Some(v) == <<v>>
IsSome(o) == Len(o) = 1
Unwrap(o) == o[1]

U16 == 65536

\* a < b as usize values
ULt(a, b) == IF (a >= 0) = (b >= 0) THEN a < b ELSE a >= 0
ULe(a, b) == a = b \/ ULt(a, b)
\* usize::min
UMin(a, b) == IF ULt(b, a) THEN b ELSE a
\* usize::saturating_sub(1) and usize::saturating_add(1)
SatSub1(a) == IF a = 0 THEN 0 ELSE a - 1
SatAdd1(a) == IF a = -1 THEN a ELSE a + 1
\* `as u16` of a usize
AsU16(a) == a % U16
\* v.to_string().len() of a usize: a wrapped value has the 20 digits of
\* the values near 2^64
RECURSIVE Digits(_)
Digits(n) == IF n < 0 THEN 20 ELSE IF n < 10 THEN 1 ELSE 1 + Digits(n \div 10)

Max(a, b) == IF a >= b THEN a ELSE b

-----------------------------------------------------------------------------
(* Vec and String *)

\* Vec::insert / String::insert at 0-based index i, i <= Len(s)
InsertAt(s, i, x) == SubSeq(s, 1, i) \o <<x>> \o SubSeq(s, i + 1, Len(s))
\* Vec::remove / String::remove at 0-based index i, i < Len(s)
RemoveAt(s, i) == SubSeq(s, 1, i) \o SubSeq(s, i + 2, Len(s))
\* s with the element at 0-based index i replaced
SetAt(s, i, x) == [s EXCEPT ![i + 1] = x]
\* char::is_whitespace on the characters of the model
is_whitespace(c) == c = " "

\* str::find(char::is_whitespace): Some(0-based index of the first match)
find(s) ==
    LET hits == {i \in 1..Len(s) : is_whitespace(s[i])}
    IN  IF hits = {} THEN None
        ELSE Some((CHOOSE i \in hits : \A j \in hits : i <= j) - 1)
\* str::rfind(char::is_whitespace): Some(0-based index of the last match)
rfind(s) ==
    LET hits == {i \in 1..Len(s) : is_whitespace(s[i])}
    IN  IF hits = {} THEN None
        ELSE Some((CHOOSE i \in hits : \A j \in hits : i >= j) - 1)

\* str::trim
RECURSIVE TrimStart(_)
TrimStart(s) ==
    IF s # <<>> /\ is_whitespace(Head(s)) THEN TrimStart(Tail(s)) ELSE s
RECURSIVE TrimEnd(_)
TrimEnd(s) ==
    IF s # <<>> /\ is_whitespace(s[Len(s)])
    THEN TrimEnd(SubSeq(s, 1, Len(s) - 1)) ELSE s
trim(s) == TrimEnd(TrimStart(s))

\* str::lines: the text split at each "\n"; a final empty piece is dropped
RECURSIVE SplitLines(_, _)
SplitLines(text, cur) ==
    IF text = <<>> THEN (IF cur = <<>> THEN <<>> ELSE <<cur>>)
    ELSE IF Head(text) = "\n" THEN <<cur>> \o SplitLines(Tail(text), <<>>)
    ELSE SplitLines(Tail(text), Append(cur, Head(text)))
str_lines(text) == SplitLines(text, <<>>)

-----------------------------------------------------------------------------
(* Results of operations that can panic *)

Ok(v) == [ok |-> TRUE, v |-> v]
Panic == [ok |-> FALSE, v |-> <<>>]
\* An arithmetic overflow: a panic under overflow checks, a wrap without.
Overflow(cond) == overflow_checks /\ cond

-----------------------------------------------------------------------------
(* Buffer *)

\* Buffer::from_file; file is None or Some(content of the file)
from_file(file) ==
    IF IsSome(file) THEN str_lines(Unwrap(file)) ELSE << <<>> >>

\* Buffer::get
get(ls, line) == IF Len(ls) > line THEN Some(ls[line + 1]) ELSE None

\* Buffer::len
len(ls) == Len(ls)

\* Buffer::insert; String::insert panics when x is past the end of the line
insert(ls, x, y, c) ==
    IF y < Len(ls)
    THEN IF x > Len(ls[y + 1]) THEN Panic
         ELSE Ok(SetAt(ls, y, InsertAt(ls[y + 1], x, c)))
    ELSE Ok(ls)

\* Buffer::delete; String::remove panics when x is no index of the line
delete(ls, x, y) ==
    IF y < Len(ls)
    THEN IF x >= Len(ls[y + 1]) THEN Panic
         ELSE Ok(SetAt(ls, y, RemoveAt(ls[y + 1], x)))
    ELSE Ok(ls)

\* Buffer::remove_line
remove_line(ls, line) == IF len(ls) > line THEN RemoveAt(ls, line) ELSE ls

-----------------------------------------------------------------------------
(* Editor: the viewport *)

\* Editor::vtop and Editor::vleft are set in Editor::new and never assigned
vtop == 0
vleft == 0

Col(e) == e.cur_pos[1]
Row(e) == e.cur_pos[2]

\* Editor::line_number_width
line_number_width(e) ==
    LET total_lines == len(e.lines) - 1
    IN  Max(Digits(total_lines), 3) + 2
line_number_width_overflows(e) == len(e.lines) = 0

\* Editor::vwidth
vwidth(e) == (e.size[1] - line_number_width(e) - 1) % U16
vwidth_overflows(e) ==
    \/ line_number_width_overflows(e)
    \/ e.size[1] < line_number_width(e) + 1

\* Editor::vheight
vheight(e) == (e.size[2] - 2) % U16
vheight_overflows(e) == e.size[2] < 2

\* Editor::viewport_line
viewport_line(e, n) == get(e.lines, (vtop + n) % U16)

\* Editor::line_length
line_length(e) ==
    LET line == viewport_line(e, AsU16(Row(e)))
    IN  IF IsSome(line) THEN Len(Unwrap(line)) % U16 ELSE 0

\* Editor::buffer_line
buffer_line(e) == (vtop + AsU16(Row(e))) % U16

\* The text of the status line's mode field: " {:?} " of the mode
ModeLabelLen(m) == IF m = "Command" THEN 9 ELSE 8

\* Editor::draw panics exactly when one of its subtractions or additions
\* overflows under overflow checks (draw_viewport, draw_statusline,
\* draw_line_numbers, draw_commandline, the final MoveTo).
draw_panics(e) ==
    LET posLen == 3 + Digits((Col(e) + 1)) + Digits((Row(e) + 1))
    IN  Overflow(\/ vwidth_overflows(e)
                 \/ vheight_overflows(e)
                 \/ Col(e) = -1
                 \/ Row(e) = -1
                 \/ e.size[1] < ModeLabelLen(e.mode) + posLen + 2
                 \/ IF e.mode = "Command"
                    THEN e.size[2] < 1
                    ELSE AsU16(Col(e)) + line_number_width(e) + 2 >= U16)

-----------------------------------------------------------------------------
(* Editor::run: the arms of `match action`.  Each takes the editor e as    *)
(* handle_event left it and gives Ok(the editor after the arm) or Panic.   *)

\* self.buffer.lines[i] panics when i is no index of the Vec
IndexPanics(ls, i) == ~ULt(i, Len(ls))

\* Action::MoveUp
MoveUp(e) ==
    LET row == SatSub1(Row(e))
    IN  IF IndexPanics(e.lines, row) THEN Panic
        ELSE Ok([e EXCEPT !.cur_pos =
                    <<UMin(Col(e), Len(e.lines[row + 1])), row>>])

\* Action::MoveDown
MoveDown(e) ==
    LET moves == ULt(SatAdd1(Row(e)), Len(e.lines))
        row1  == IF moves THEN Row(e) + 1 ELSE Row(e)
        col1  == IF moves THEN UMin(Col(e), Len(e.lines[row1 + 1])) ELSE Col(e)
        clamp == ~ULt(row1, vheight(e))
    IN  IF Overflow(vheight_overflows(e) \/ (clamp /\ vheight(e) = 0))
        THEN Panic
        ELSE Ok([e EXCEPT !.cur_pos =
                    <<col1, IF clamp THEN (vheight(e) - 1) % U16 ELSE row1>>])

\* Action::MoveLeft
MoveLeft(e) ==
    LET col == SatSub1(Col(e))
    IN  Ok([e EXCEPT !.cur_pos = <<IF ULt(col, vleft) THEN vleft ELSE col,
                                   Row(e)>>])

\* Action::MoveRight without the clamp to the line's length
MoveRight_past_end(e) ==
    LET col1 == Col(e) + 1
        clamp == ~ULt(col1, vwidth(e))
    IN  IF Overflow(\/ Col(e) = -1
                    \/ vwidth_overflows(e)
                    \/ (clamp /\ vwidth(e) = 0))
        THEN Panic
        ELSE Ok([e EXCEPT !.cur_pos =
                    <<IF clamp THEN (vwidth(e) - 1) % U16 ELSE col1, Row(e)>>])

\* Action::MoveRight
MoveRight(e) ==
    LET col1 == Col(e) + 1
        col2 == IF ~ULt(col1, line_length(e)) THEN line_length(e) ELSE col1
        clamp == ~ULt(col2, vwidth(e))
    IN  IF Overflow(\/ Col(e) = -1
                    \/ vwidth_overflows(e)
                    \/ (clamp /\ vwidth(e) = 0))
        THEN Panic
        ELSE Ok([e EXCEPT !.cur_pos =
                    <<IF clamp THEN (vwidth(e) - 1) % U16 ELSE col2, Row(e)>>])

\* Action::MoveWordForward; line[col..] panics when col is past the end
MoveWordForward(e) ==
    IF IndexPanics(e.lines, Row(e)) THEN Panic
    ELSE LET line == e.lines[Row(e) + 1]
         IN  IF ULt(Len(line), Col(e)) THEN Panic
             ELSE LET pos == find(SubSeq(line, Col(e) + 1, Len(line)))
                  IN  Ok([e EXCEPT !.cur_pos =
                            <<IF IsSome(pos) THEN Col(e) + Unwrap(pos) + 1
                              ELSE Len(line), Row(e)>>])

\* Action::MoveWordBackward; line[..col] panics when col is past the end
MoveWordBackward(e) ==
    IF IndexPanics(e.lines, Row(e)) THEN Panic
    ELSE LET line == e.lines[Row(e) + 1]
         IN  IF ULt(Len(line), Col(e)) THEN Panic
             ELSE LET pos == rfind(SubSeq(line, 1, Col(e)))
                  IN  Ok([e EXCEPT !.cur_pos =
                            <<IF IsSome(pos) THEN Unwrap(pos) ELSE Len(line),
                              Row(e)>>])

\* Action::MoveWordEnd
MoveWordEnd(e) ==
    IF IndexPanics(e.lines, Row(e)) THEN Panic
    ELSE LET line == e.lines[Row(e) + 1]
         IN  IF Overflow(Len(line) = 0) THEN Panic
             ELSE Ok([e EXCEPT !.cur_pos = <<Len(line) - 1, Row(e)>>])

\* Action::MoveToTop
MoveToTop(e) == Ok([e EXCEPT !.cur_pos = <<0, 0>>])

\* Action::MoveToBottom
MoveToBottom(e) ==
    IF Overflow(Len(e.lines) = 0) THEN Panic
    ELSE Ok([e EXCEPT !.cur_pos = <<0, Len(e.lines) - 1>>])

\* Action::OpenLineAbove; Vec::insert panics when the index is past the end
OpenLineAbove(e) ==
    IF ULt(Len(e.lines), Row(e)) THEN Panic
    ELSE Ok([e EXCEPT !.lines = InsertAt(e.lines, Row(e), <<>>),
                      !.mode = "Insert",
                      !.cur_pos = <<0, Row(e)>>])

\* Action::OpenLineBelow leaving the cursor on its row
OpenLineBelow_stay(e) ==
    LET row == Row(e) + 1
    IN  IF Overflow(Row(e) = -1) \/ ULt(Len(e.lines), row) THEN Panic
        ELSE Ok([e EXCEPT !.lines = InsertAt(e.lines, row, <<>>),
                          !.mode = "Insert",
                          !.cur_pos = <<0, Row(e)>>])

\* Action::OpenLineBelow
OpenLineBelow(e) ==
    LET row == Row(e) + 1
    IN  IF Overflow(Row(e) = -1) \/ ULt(Len(e.lines), row) THEN Panic
        ELSE Ok([e EXCEPT !.lines = InsertAt(e.lines, row, <<>>),
                          !.mode = "Insert",
                          !.cur_pos = <<0, row>>])

\* Action::InsertCharAtCursorPos
InsertCharAtCursorPos(e, c) ==
    LET r == insert(e.lines, AsU16(Col(e)), buffer_line(e), c)
    IN  IF ~r.ok \/ Overflow(Col(e) = -1) THEN Panic
        ELSE Ok([e EXCEPT !.lines = r.v, !.cur_pos = <<Col(e) + 1, Row(e)>>])

\* Action::DeleteChar with line.pop() for every column of the line
DeleteChar_pop(e) ==
    IF Col(e) = 0 /\ ULt(0, Row(e))
    THEN IF IndexPanics(e.lines, Row(e)) THEN Panic
         ELSE LET current_line == e.lines[Row(e) + 1]
                  removed == RemoveAt(e.lines, Row(e))
                  row == Row(e) - 1
              IN  IF IndexPanics(removed, row) THEN Panic
                  ELSE LET prev_line == removed[row + 1]
                       IN  Ok([e EXCEPT
                                !.lines = SetAt(removed, row,
                                                prev_line \o current_line),
                                !.cur_pos = <<Len(prev_line), row>>])
    ELSE IF ULt(Row(e), Len(e.lines))
    THEN LET line == e.lines[Row(e) + 1]
         IN  Ok([e EXCEPT
                    !.lines = SetAt(e.lines, Row(e),
                                    SubSeq(line, 1, Len(line) - 1)),
                    !.cur_pos = <<SatSub1(Col(e)), Row(e)>>])
    ELSE Ok(e)

\* Action::DeleteChar putting the cursor at the start of the joined line
DeleteChar_join_start(e) ==
    IF Col(e) = 0 /\ ULt(0, Row(e))
    THEN IF IndexPanics(e.lines, Row(e)) THEN Panic
         ELSE LET current_line == e.lines[Row(e) + 1]
                  removed == RemoveAt(e.lines, Row(e))
                  row == Row(e) - 1
              IN  IF IndexPanics(removed, row) THEN Panic
                  ELSE LET prev_line == removed[row + 1]
                       IN  Ok([e EXCEPT
                                !.lines = SetAt(removed, row,
                                                prev_line \o current_line),
                                !.cur_pos = <<0, row>>])
    ELSE IF ULt(Row(e), Len(e.lines))
    THEN LET line == e.lines[Row(e) + 1]
         IN  IF ULt(Col(e), Len(line))
             THEN IF Col(e) = 0 THEN Panic
                  ELSE Ok([e EXCEPT
                            !.lines = SetAt(e.lines, Row(e),
                                            RemoveAt(line, Col(e) - 1)),
                            !.cur_pos = <<SatSub1(Col(e)), Row(e)>>])
             ELSE Ok([e EXCEPT
                        !.lines = SetAt(e.lines, Row(e),
                                        SubSeq(line, 1, Len(line) - 1)),
                        !.cur_pos = <<SatSub1(Col(e)), Row(e)>>])
    ELSE Ok(e)

\* Action::DeleteChar
DeleteChar(e) ==
    IF Col(e) = 0 /\ ULt(0, Row(e))
    THEN IF IndexPanics(e.lines, Row(e)) THEN Panic
         ELSE LET current_line == e.lines[Row(e) + 1]
                  removed == RemoveAt(e.lines, Row(e))
                  row == Row(e) - 1
              IN  IF IndexPanics(removed, row) THEN Panic
                  ELSE LET prev_line == removed[row + 1]
                       IN  Ok([e EXCEPT
                                !.lines = SetAt(removed, row,
                                                prev_line \o current_line),
                                !.cur_pos = <<Len(prev_line), row>>])
    ELSE IF ULt(Row(e), Len(e.lines))
    THEN LET line == e.lines[Row(e) + 1]
         IN  IF ULt(Col(e), Len(line))
             THEN \* line.remove(col - 1): at col = 0 the subtraction panics
                  \* or wraps to an index String::remove panics on
                  IF Col(e) = 0 THEN Panic
                  ELSE Ok([e EXCEPT
                            !.lines = SetAt(e.lines, Row(e),
                                            RemoveAt(line, Col(e) - 1)),
                            !.cur_pos = <<SatSub1(Col(e)), Row(e)>>])
             ELSE \* line.pop()
                  Ok([e EXCEPT
                        !.lines = SetAt(e.lines, Row(e),
                                        SubSeq(line, 1, Len(line) - 1)),
                        !.cur_pos = <<SatSub1(Col(e)), Row(e)>>])
    ELSE Ok(e)

\* Action::DeleteCharAtCursorPos
DeleteCharAtCursorPos(e) ==
    LET r == delete(e.lines, AsU16(Col(e)), buffer_line(e))
    IN  IF r.ok THEN Ok([e EXCEPT !.lines = r.v]) ELSE Panic

\* Action::DeleteCurrentLine leaving the cursor row as it is
DeleteCurrentLine_keep_row(e) ==
    Ok([e EXCEPT !.lines = remove_line(e.lines, buffer_line(e))])

\* Action::DeleteCurrentLine
DeleteCurrentLine(e) ==
    Ok([e EXCEPT !.lines = remove_line(e.lines, buffer_line(e)),
                 !.cur_pos = <<Col(e), SatSub1(Row(e))>>])

\* Action::NewLine leaving the cursor column as it is
NewLine_keep_col(e) ==
    LET ls == IF ~ULt(Row(e), Len(e.lines))
              THEN Append(e.lines, <<>>) ELSE e.lines
    IN  IF IndexPanics(ls, Row(e)) THEN Panic
        ELSE LET line == ls[Row(e) + 1]
                 split == IF ULt(Col(e), Len(line))
                          THEN InsertAt(SetAt(ls, Row(e),
                                              SubSeq(line, 1, Col(e))),
                                        Row(e) + 1,
                                        SubSeq(line, Col(e) + 1, Len(line)))
                          ELSE InsertAt(ls, Row(e) + 1, <<>>)
             IN  Ok([e EXCEPT !.lines = split,
                              !.cur_pos = <<Col(e), Row(e) + 1>>])

\* Action::NewLine
NewLine(e) ==
    LET ls == IF ~ULt(Row(e), Len(e.lines))
              THEN Append(e.lines, <<>>) ELSE e.lines
    IN  IF IndexPanics(ls, Row(e)) THEN Panic
        ELSE LET line == ls[Row(e) + 1]
                 split == IF ULt(Col(e), Len(line))
                          THEN InsertAt(SetAt(ls, Row(e),
                                              SubSeq(line, 1, Col(e))),
                                        Row(e) + 1,
                                        SubSeq(line, Col(e) + 1, Len(line)))
                          ELSE InsertAt(ls, Row(e) + 1, <<>>)
             IN  Ok([e EXCEPT !.lines = split, !.cur_pos = <<0, Row(e) + 1>>])

\* Action::EnterMode leaving the cursor on the command line at the return
\* from Command mode
EnterMode_no_restore(e, new_mode) ==
    IF new_mode = "Normal"
    THEN IF e.mode = "Command"
         THEN IF \/ ~IsSome(e.scur_pos)
                 \/ Overflow(vwidth_overflows(e) \/ e.size[2] < 1)
              THEN Panic
              ELSE Ok([e EXCEPT !.scur_pos = None,
                                !.command_buffer = <<>>,
                                !.mode = new_mode])
         ELSE IF e.mode = "Insert"
         THEN Ok([e EXCEPT !.cur_pos = <<SatSub1(Col(e)), Row(e)>>,
                           !.mode = new_mode])
         ELSE Ok([e EXCEPT !.mode = new_mode])
    ELSE IF new_mode = "Command"
    THEN IF Overflow(e.size[2] < 1) THEN Panic
         ELSE Ok([e EXCEPT !.scur_pos = Some(e.cur_pos),
                           !.cur_pos = <<0, (e.size[2] - 1) % U16>>,
                           !.mode = new_mode])
    ELSE Ok([e EXCEPT !.mode = new_mode])

\* Action::EnterMode leaving the column as it is at the return from Insert
\* mode
EnterMode_keep_col(e, new_mode) ==
    IF new_mode = "Normal"
    THEN IF e.mode = "Command"
         THEN IF \/ ~IsSome(e.scur_pos)
                 \/ Overflow(vwidth_overflows(e) \/ e.size[2] < 1)
              THEN Panic
              ELSE Ok([e EXCEPT !.cur_pos = Unwrap(e.scur_pos),
                                !.scur_pos = None,
                                !.command_buffer = <<>>,
                                !.mode = new_mode])
         ELSE Ok([e EXCEPT !.mode = new_mode])
    ELSE IF new_mode = "Command"
    THEN IF Overflow(e.size[2] < 1) THEN Panic
         ELSE Ok([e EXCEPT !.scur_pos = Some(e.cur_pos),
                           !.cur_pos = <<0, (e.size[2] - 1) % U16>>,
                           !.mode = new_mode])
    ELSE Ok([e EXCEPT !.mode = new_mode])

\* Action::EnterMode keeping the anchor at the return from Command mode
EnterMode_keep_anchor(e, new_mode) ==
    IF new_mode = "Normal"
    THEN IF e.mode = "Command"
         THEN IF \/ ~IsSome(e.scur_pos)
                 \/ Overflow(vwidth_overflows(e) \/ e.size[2] < 1)
              THEN Panic
              ELSE Ok([e EXCEPT !.cur_pos = Unwrap(e.scur_pos),
                                !.command_buffer = <<>>,
                                !.mode = new_mode])
         ELSE IF e.mode = "Insert"
         THEN Ok([e EXCEPT !.cur_pos = <<SatSub1(Col(e)), Row(e)>>,
                           !.mode = new_mode])
         ELSE Ok([e EXCEPT !.mode = new_mode])
    ELSE IF new_mode = "Command"
    THEN IF Overflow(e.size[2] < 1) THEN Panic
         ELSE Ok([e EXCEPT !.scur_pos = Some(e.cur_pos),
                           !.cur_pos = <<0, (e.size[2] - 1) % U16>>,
                           !.mode = new_mode])
    ELSE Ok([e EXCEPT !.mode = new_mode])

\* Action::EnterMode
EnterMode(e, new_mode) ==
    IF new_mode = "Normal"
    THEN IF e.mode = "Command"
         THEN \* scur_pos.unwrap(), then clear_command with its vwidth()
              \* and size.1 - 1
              IF \/ ~IsSome(e.scur_pos)
                 \/ Overflow(vwidth_overflows(e) \/ e.size[2] < 1)
              THEN Panic
              ELSE Ok([e EXCEPT !.cur_pos = Unwrap(e.scur_pos),
                                !.scur_pos = None,
                                !.command_buffer = <<>>,
                                !.mode = new_mode])
         ELSE IF e.mode = "Insert"
         THEN Ok([e EXCEPT !.cur_pos = <<SatSub1(Col(e)), Row(e)>>,
                           !.mode = new_mode])
         ELSE Ok([e EXCEPT !.mode = new_mode])
    ELSE IF new_mode = "Command"
    THEN IF Overflow(e.size[2] < 1) THEN Panic
         ELSE Ok([e EXCEPT !.scur_pos = Some(e.cur_pos),
                           !.cur_pos = <<0, (e.size[2] - 1) % U16>>,
                           !.mode = new_mode])
    ELSE Ok([e EXCEPT !.mode = new_mode])

\* Action::SetWaitingCmd
SetWaitingCmd(e, cmd) == Ok([e EXCEPT !.waiting_cmd = Some(cmd)])

-----------------------------------------------------------------------------
(* Events and actions *)

Key(code, ch, ctrl) ==
    [kind |-> "Key", code |-> code, ch |-> ch, ctrl |-> ctrl, size |-> <<0, 0>>]
Char(c) == Key("Char", c, FALSE)
CtrlC == Key("Char", "c", TRUE)
Named(code) == Key(code, "", FALSE)
Resize(sz) ==
    [kind |-> "Resize", code |-> "", ch |-> "", ctrl |-> FALSE, size |-> sz]

\* The events the model offers while the editor is in mode m: the keys the
\* mode maps, keys it does not map, and the resizes.
CharsIn(m) ==
    CASE m = "Normal" -> NormalChars
      [] m = "Insert" -> TextChars
      [] m = "Visual" -> VisualChars
      [] m = "Command" -> CmdChars
NamedKeysIn(m) ==
    CASE m = "Normal" -> {"Up", "Down", "Left", "Right", "Esc"}
      [] m = "Insert" -> {"Esc", "Enter", "Backspace", "Up"}
      [] m = "Visual" -> {"Esc", "Up"}
      [] m = "Command" -> {"Esc", "Enter", "Backspace", "Up"}
Events(m) ==
    {Char(c) : c \in CharsIn(m)} \cup {CtrlC}
        \cup {Named(k) : k \in NamedKeysIn(m)}
        \cup {Resize(sz) : sz \in TermSizes}

Act(kind, arg) == [kind |-> kind, arg |-> arg]
\* What a handler gives: Ok([action |-> Option<Action>, e |-> the editor]) or
\* Panic
Handled(action, e) == Ok([action |-> action, e |-> e])

\* process_command without its "wq" arm
process_command_no_wq(command) ==
    IF command = <<"q">> THEN Some(Act("Quit", ""))
    ELSE Some(Act("EnterMode", "Normal"))

\* Editor::process_command
process_command(command) ==
    IF command = <<"q">> THEN Some(Act("Quit", ""))
    ELSE IF command = <<"w", "q">> THEN Some(Act("Quit", ""))
    ELSE Some(Act("EnterMode", "Normal"))

\* The `match code` of Editor::handle_normal_mode, but for the `a` arm
NormalKeymap(event) ==
    LET c == event.ch
    IN  IF event.code = "Char"
        THEN CASE c = "q" -> Some(Act("Quit", ""))
               [] c = "k" -> Some(Act("MoveUp", ""))
               [] c = "j" -> Some(Act("MoveDown", ""))
               [] c = "l" -> Some(Act("MoveRight", ""))
               [] c = "h" -> Some(Act("MoveLeft", ""))
               [] c = "w" -> Some(Act("MoveWordForward", ""))
               [] c = "b" -> Some(Act("MoveWordBackward", ""))
               [] c = "$" -> Some(Act("MoveWordEnd", ""))
               [] c = "G" -> Some(Act("MoveToBottom", ""))
               [] c = "O" -> Some(Act("OpenLineAbove", ""))
               [] c = "o" -> Some(Act("OpenLineBelow", ""))
               [] c = "x" -> Some(Act("DeleteCharAtCursorPos", ""))
               [] c = "i" -> Some(Act("EnterMode", "Insert"))
               [] c = "v" -> Some(Act("EnterMode", "Visual"))
               [] c = ":" -> Some(Act("EnterMode", "Command"))
               [] c = "d" -> Some(Act("SetWaitingCmd", "d"))
               [] c = "g" -> Some(Act("SetWaitingCmd", "g"))
               [] OTHER -> None
        ELSE CASE event.code = "Up" -> Some(Act("MoveUp", ""))
               [] event.code = "Down" -> Some(Act("MoveDown", ""))
               [] event.code = "Right" -> Some(Act("MoveRight", ""))
               [] event.code = "Left" -> Some(Act("MoveLeft", ""))
               [] OTHER -> None

\* handle_waiting_cmd running the follow-up key as a command of its own
handle_waiting_cmd_fallthrough(cmd, event) ==
    IF event.kind = "Key" /\ event.code = "Char" /\ event.ch = cmd
    THEN IF cmd = "d" THEN Some(Act("DeleteCurrentLine", ""))
         ELSE Some(Act("MoveToTop", ""))
    ELSE IF event.kind = "Key" THEN NormalKeymap(event)
    ELSE None

\* Editor::handle_waiting_cmd
handle_waiting_cmd(cmd, event) ==
    IF cmd = "d"
    THEN IF event.kind = "Key" /\ event.code = "Char" /\ event.ch = "d"
         THEN Some(Act("DeleteCurrentLine", "")) ELSE None
    ELSE IF cmd = "g"
    THEN IF event.kind = "Key" /\ event.code = "Char" /\ event.ch = "g"
         THEN Some(Act("MoveToTop", "")) ELSE None
    ELSE None

\* Editor::handle_normal_mode
handle_normal_mode(e, event) ==
    IF IsSome(e.waiting_cmd)
    THEN Handled(handle_waiting_cmd(Unwrap(e.waiting_cmd), event),
                 [e EXCEPT !.waiting_cmd = None])
    ELSE IF event.kind # "Key" THEN Handled(None, e)
    ELSE IF event.code = "Char" /\ event.ch = "a"
    THEN IF Overflow(Col(e) = -1) THEN Panic
         ELSE Handled(Some(Act("EnterMode", "Insert")),
                      [e EXCEPT !.cur_pos = <<Col(e) + 1, Row(e)>>])
    ELSE Handled(NormalKeymap(event), e)

\* handle_visual_mode with Esc and Ctrl-C leading to Insert mode
handle_visual_mode_insert(e, event) ==
    IF event.kind # "Key" THEN Handled(None, e)
    ELSE IF (event.code = "Char" /\ event.ch = "c" /\ event.ctrl)
            \/ event.code = "Esc"
    THEN Handled(Some(Act("EnterMode", "Insert")), e)
    ELSE IF event.code = "Char" /\ event.ch = "h"
    THEN Handled(Some(Act("MoveLeft", "")), e)
    ELSE IF event.code = "Char" /\ event.ch = "j"
    THEN Handled(Some(Act("MoveDown", "")), e)
    ELSE IF event.code = "Char" /\ event.ch = "k"
    THEN Handled(Some(Act("MoveUp", "")), e)
    ELSE IF event.code = "Char" /\ event.ch = "l"
    THEN Handled(Some(Act("MoveRight", "")), e)
    ELSE Handled(None, e)

\* Editor::handle_visual_mode
handle_visual_mode(e, event) ==
    IF event.kind # "Key" THEN Handled(None, e)
    ELSE IF (event.code = "Char" /\ event.ch = "c" /\ event.ctrl)
            \/ event.code = "Esc"
    THEN Handled(Some(Act("EnterMode", "Normal")), e)
    ELSE IF event.code = "Char" /\ event.ch = "h"
    THEN Handled(Some(Act("MoveLeft", "")), e)
    ELSE IF event.code = "Char" /\ event.ch = "j"
    THEN Handled(Some(Act("MoveDown", "")), e)
    ELSE IF event.code = "Char" /\ event.ch = "k"
    THEN Handled(Some(Act("MoveUp", "")), e)
    ELSE IF event.code = "Char" /\ event.ch = "l"
    THEN Handled(Some(Act("MoveRight", "")), e)
    ELSE Handled(None, e)

\* Editor::handle_command_mode
handle_command_mode(e, event) ==
    IF event.kind # "Key" THEN Handled(None, e)
    ELSE IF (event.code = "Char" /\ event.ch = "c" /\ event.ctrl)
            \/ event.code = "Esc"
    THEN Handled(Some(Act("EnterMode", "Normal")),
                 [e EXCEPT !.command_buffer = <<>>])
    ELSE IF event.code = "Char"
    THEN Handled(None,
                 [e EXCEPT !.command_buffer = Append(@, event.ch)])
    ELSE IF event.code = "Backspace"
    THEN IF e.command_buffer = <<>>
         THEN Handled(Some(Act("EnterMode", "Normal")), e)
         ELSE Handled(None,
                      [e EXCEPT !.command_buffer =
                                    SubSeq(@, 1, Len(@) - 1)])
    ELSE IF event.code = "Enter"
    THEN LET cmd == trim(e.command_buffer)
         IN  Handled(process_command(cmd),
                     [e EXCEPT !.command_buffer = <<>>])
    ELSE Handled(None, e)

\* Editor::handle_insert_mode
handle_insert_mode(e, event) ==
    IF event.kind # "Key" THEN Handled(None, e)
    ELSE IF (event.code = "Char" /\ event.ch = "c" /\ event.ctrl)
            \/ event.code = "Esc"
    THEN Handled(Some(Act("EnterMode", "Normal")), e)
    ELSE IF event.code = "Char"
    THEN Handled(Some(Act("InsertCharAtCursorPos", event.ch)), e)
    ELSE IF event.code = "Enter"
    THEN Handled(Some(Act("NewLine", "")), e)
    ELSE IF event.code = "Backspace"
    THEN Handled(Some(Act("DeleteChar", "")), e)
    ELSE Handled(None, e)

\* handle_event dispatching Visual mode to handle_command_mode
handle_event_visual_as_command(e, event) ==
    LET e1 == IF event.kind = "Resize" THEN [e EXCEPT !.size = event.size]
              ELSE e
    IN  CASE e1.mode = "Normal" -> handle_normal_mode(e1, event)
          [] e1.mode = "Insert" -> handle_insert_mode(e1, event)
          [] e1.mode = "Visual" -> handle_command_mode(e1, event)
          [] e1.mode = "Command" -> handle_command_mode(e1, event)

\* Editor::handle_event
handle_event(e, event) ==
    LET e1 == IF event.kind = "Resize" THEN [e EXCEPT !.size = event.size]
              ELSE e
    IN  CASE e1.mode = "Normal" -> handle_normal_mode(e1, event)
          [] e1.mode = "Insert" -> handle_insert_mode(e1, event)
          [] e1.mode = "Visual" -> handle_visual_mode(e1, event)
          [] e1.mode = "Command" -> handle_command_mode(e1, event)

\* The `match action` of Editor::run; Quit leaves the loop and is not here
run_action(e, a) ==
    CASE a.kind = "MoveUp" -> MoveUp(e)
      [] a.kind = "MoveDown" -> MoveDown(e)
      [] a.kind = "MoveRight" -> MoveRight(e)
      [] a.kind = "MoveLeft" -> MoveLeft(e)
      [] a.kind = "MoveWordForward" -> MoveWordForward(e)
      [] a.kind = "MoveWordBackward" -> MoveWordBackward(e)
      [] a.kind = "MoveWordEnd" -> MoveWordEnd(e)
      [] a.kind = "MoveToTop" -> MoveToTop(e)
      [] a.kind = "MoveToBottom" -> MoveToBottom(e)
      [] a.kind = "OpenLineAbove" -> OpenLineAbove(e)
      [] a.kind = "OpenLineBelow" -> OpenLineBelow(e)
      [] a.kind = "InsertCharAtCursorPos" -> InsertCharAtCursorPos(e, a.arg)
      [] a.kind = "DeleteChar" -> DeleteChar(e)
      [] a.kind = "DeleteCharAtCursorPos" -> DeleteCharAtCursorPos(e)
      [] a.kind = "DeleteCurrentLine" -> DeleteCurrentLine(e)
      [] a.kind = "NewLine" -> NewLine(e)
      [] a.kind = "EnterMode" -> EnterMode(e, a.arg)
      [] a.kind = "SetWaitingCmd" -> SetWaitingCmd(e, a.arg)

-----------------------------------------------------------------------------
(* The state machine *)

\* The Editor as a record
Ed == [lines |-> lines, cur_pos |-> cur_pos, scur_pos |-> scur_pos,
       mode |-> mode, size |-> size, waiting_cmd |-> waiting_cmd,
       command_buffer |-> command_buffer]

\* The texts of at most n characters over the alphabet
Texts(alphabet, n) == UNION {[1..k -> alphabet] : k \in 0..n}

\* main's argument: no path, or the path of a file with some content
Files == {None} \cup {Some(t) : t \in Texts(TextChars \cup {"\n"}, MaxFileLen)}

\* The outcomes of Editor::new, by the first of its `?` that returns an
\* error: enable_raw_mode, execute(EnterAlternateScreen), execute(Clear) or
\* terminal::size (these two leave the terminal alike); or none of them.
\* main returns the error at once.
NewOutcomes ==
    { [status |-> "failed", raw_mode |-> FALSE, alternate_screen |-> FALSE],
      [status |-> "failed", raw_mode |-> TRUE, alternate_screen |-> FALSE],
      [status |-> "failed", raw_mode |-> TRUE, alternate_screen |-> TRUE],
      [status |-> "running", raw_mode |-> TRUE, alternate_screen |-> TRUE] }

\* main up to editor.run(): Buffer::from_file, then Editor::new.  When new
\* fails there is no Editor, and its fields stand as new would have set
\* them.
Init ==
    /\ \E file \in Files : lines = from_file(file)
    /\ cur_pos = <<0, 0>>
    /\ scur_pos = None
    /\ mode = "Normal"
    /\ size \in TermSizes
    /\ waiting_cmd = None
    /\ command_buffer = <<>>
    /\ overflow_checks \in BOOLEAN
    /\ \E o \in NewOutcomes :
         /\ status = o.status
         /\ raw_mode = o.raw_mode
         /\ alternate_screen = o.alternate_screen
    /\ act = "None"
    /\ prev = [cur_pos |-> <<0, 0>>, waiting_cmd |-> None, mode |-> "Normal",
               typed |-> FALSE]
    /\ saves = 0
    /\ entered = None

\* What prev keeps of the current state: the cursor, the pending leader, the
\* mode, and whether the command line holds text
PrevOf == [cur_pos |-> cur_pos, waiting_cmd |-> waiting_cmd, mode |-> mode,
           typed |-> command_buffer # <<>>]

RECURSIVE TotalChars(_)
TotalChars(ls) == IF ls = <<>> THEN 0 ELSE Len(Head(ls)) + TotalChars(Tail(ls))

\* The bounds of the model on an editor
Within(e) ==
    /\ Len(e.lines) <= MaxLines
    /\ TotalChars(e.lines) + Len(e.command_buffer) <= MaxChars
    /\ Col(e) \in -MaxCursor..MaxCursor
    /\ Row(e) \in -MaxCursor..MaxCursor

\* The body of the loop of Editor::run after a draw that did not panic:
\* the event through handle_event, then the action through `match action`.
\* kind is the Action's variant ("None" when there is none), status what
\* becomes of the process, e the editor (as it was, when the body panics).
loop_body(e, event) ==
    LET h == handle_event(e, event)
    IN  IF ~h.ok
        THEN [kind |-> "EnterMode", status |-> "panicked", e |-> e]
        ELSE IF ~IsSome(h.v.action)
        THEN [kind |-> "None", status |-> "running", e |-> h.v.e]
        ELSE LET a == Unwrap(h.v.action)
             IN  IF a.kind = "Quit"
                 THEN [kind |-> "Quit", status |-> "quit", e |-> h.v.e]
                 ELSE LET r == run_action(h.v.e, a)
                      IN  IF r.ok
                          THEN [kind |-> a.kind, status |-> "running",
                                e |-> r.v]
                          ELSE [kind |-> a.kind, status |-> "panicked",
                                e |-> e]

\* One iteration of the loop of Editor::run in which event::read() gives
\* the event
On(event) ==
    /\ status = "running"
    /\ ~draw_panics(Ed)
    /\ \E o \in {loop_body(Ed, event)} :
         /\ Within(o.e)
         /\ lines' = o.e.lines
         /\ cur_pos' = o.e.cur_pos
         /\ scur_pos' = o.e.scur_pos
         /\ mode' = o.e.mode
         /\ size' = o.e.size
         /\ waiting_cmd' = o.e.waiting_cmd
         /\ command_buffer' = o.e.command_buffer
         /\ status' = o.status
         /\ act' = o.kind
         /\ prev' = PrevOf
         /\ entered' = IF o.e.mode # "Command" THEN None
                        ELSE IF mode = "Command" THEN entered
                        ELSE Some([cur_pos |-> cur_pos, lines |-> lines])
         \* on Quit main goes on to Editor::cleanup, on a panic the hook
         \* of main runs: both leave the alternate screen and raw mode
         /\ raw_mode' = (raw_mode /\ o.status = "running")
         /\ alternate_screen' = (alternate_screen /\ o.status = "running")
    \* no handler and no arm of `match action` calls Buffer::save
    /\ UNCHANGED <<overflow_checks, saves>>

\* One iteration on an event the mode offers
Iterate == \E event \in Events(mode) : On(event)

\* self.draw() panics; the panic hook of main restores the terminal
DrawPanic ==
    /\ status = "running"
    /\ draw_panics(Ed)
    /\ status' = "panicked"
    /\ act' = "None"
    /\ prev' = PrevOf
    /\ raw_mode' = FALSE
    /\ alternate_screen' = FALSE
    /\ UNCHANGED <<lines, cur_pos, scur_pos, mode, size, waiting_cmd,
                   command_buffer, overflow_checks, saves, entered>>

\* self.draw()? or event::read()? returns an error: run returns it and main
\* returns it in turn, `editor.run()?`, without reaching Editor::cleanup
IoError ==
    /\ status = "running"
    /\ status' = "failed"
    /\ act' = "None"
    /\ prev' = PrevOf
    /\ UNCHANGED <<lines, cur_pos, scur_pos, mode, size, waiting_cmd,
                   command_buffer, overflow_checks, saves, raw_mode,
                   alternate_screen, entered>>

\* An iteration dispatched to handle_normal_mode with no leader pending
NormalMode == mode = "Normal" /\ waiting_cmd = None /\ Iterate
\* An iteration dispatched to handle_normal_mode and on to handle_waiting_cmd
WaitingCmd == mode = "Normal" /\ waiting_cmd # None /\ Iterate
\* An iteration dispatched to handle_insert_mode
InsertMode == mode = "Insert" /\ Iterate
\* An iteration dispatched to handle_visual_mode
VisualMode == mode = "Visual" /\ Iterate
\* An iteration dispatched to handle_command_mode
CommandMode == mode = "Command" /\ Iterate

Next ==
    \/ DrawPanic
    \/ IoError
    \/ NormalMode
    \/ WaitingCmd
    \/ InsertMode
    \/ VisualMode
    \/ CommandMode

Spec == Init /\ [][Next]_vars

-----------------------------------------------------------------------------------------------------------------------------------------------------
(* The claims *)

CurCol == cur_pos[1]
CurRow == cur_pos[2]
\* The cursor is on a line of the buffer and on or just past its characters
CursorInBuffer ==
    /\ CurRow \in 0..(Len(lines) - 1)
    /\ CurCol \in 0..Len(lines[CurRow + 1])
\* The lines before 0-based row r and the lines after it
LinesBefore(r) == SubSeq(lines, 1, r)
LinesAfter(r) == SubSeq(lines, r + 2, Len(lines))
\* This step is an iteration that read one of the keys
OnKey(keys) == \E event \in keys : On(event)

\* C1: the buffer holds at least one line in every reachable state, from
\* Buffer::from_file on and after every sequence of events.
C1_AtLeastOneLine == Len(lines) >= 1

\* C2: after an event has been applied in Normal, Insert or Visual mode the
\* cursor row is an index of the buffer and the column is at most the length
\* of that line.  Stated for buffers that hold a line, so that a violation
\* does not rest on the empty buffer of C1.
C2_CursorInBuffer ==
    (/\ status = "running"
     /\ mode \in {"Normal", "Insert", "Visual"}
     /\ Len(lines) >= 1)
        => CursorInBuffer

\* C3: the mode starts as Normal and changes only along the transition
\* table: Normal to Insert by i, a, o, O; Normal to Visual by v; Normal to
\* Command by `:`; Insert and Visual to Normal by Escape or Ctrl-C; Command to
\* Normal by Escape, Ctrl-C, Backspace on an empty command line or Enter.
C3_Transition ==
    mode' # mode =>
        \/ /\ mode = "Normal" /\ mode' = "Insert"
           /\ OnKey({Char("i"), Char("a"), Char("o"), Char("O")})
        \/ mode = "Normal" /\ mode' = "Visual" /\ On(Char("v"))
        \/ mode = "Normal" /\ mode' = "Command" /\ On(Char(":"))
        \/ /\ mode \in {"Insert", "Visual"} /\ mode' = "Normal"
           /\ OnKey({Named("Esc"), CtrlC})
        \/ /\ mode = "Command" /\ mode' = "Normal"
           /\ \/ OnKey({Named("Esc"), CtrlC, Named("Enter")})
              \/ On(Named("Backspace")) /\ command_buffer = <<>>
C3_ModeTransitions == mode = "Normal" /\ [][C3_Transition]_vars
\* Insert mode was entered from Normal mode by opening a line
C3_Witness ==
    /\ status = "running" /\ mode = "Insert"
    /\ prev.mode = "Normal" /\ act = "OpenLineBelow"

\* C4: in Normal mode with a leader pending, a key other than that leader
\* clears the leader and changes neither buffer, cursor nor mode, and the
\* run goes on; at most one leader is pending.
C4_Discard ==
    (/\ mode = "Normal" /\ IsSome(waiting_cmd)
     /\ \E event \in Events("Normal") :
          /\ event.kind = "Key" /\ event # Char(Unwrap(waiting_cmd))
          /\ On(event))
        => /\ waiting_cmd' = None
           /\ act' = "None"
           /\ lines' = lines /\ cur_pos' = cur_pos /\ mode' = mode
           /\ status' = "running"
C4_LeaderDiscarded ==
    [](waiting_cmd \in {None, Some("d"), Some("g")}) /\ [][C4_Discard]_vars
\* An iteration with `d` pending produced no action and cleared the leader
C4_Witness ==
    /\ status = "running" /\ mode = "Normal"
    /\ prev.mode = "Normal" /\ prev.waiting_cmd = Some("d")
    /\ act = "None" /\ waiting_cmd = None

\* C5: Enter in Insert mode with the cursor at (c, r), c at most the length
\* of line r: line r becomes its first c characters, a new line with the
\* rest is inserted at r+1, the other lines keep content and order, and the
\* cursor becomes (0, r+1).
C5_Split ==
    (mode = "Insert" /\ CursorInBuffer /\ On(Named("Enter")))
        => LET line == lines[CurRow + 1]
           IN  /\ status' = "running" /\ mode' = "Insert"
               /\ lines' = LinesBefore(CurRow)
                             \o <<SubSeq(line, 1, CurCol),
                                  SubSeq(line, CurCol + 1, Len(line))>>
                             \o LinesAfter(CurRow)
               /\ Len(lines') = Len(lines) + 1
               /\ cur_pos' = <<0, CurRow + 1>>
C5_EnterSplitsLine == [][C5_Split]_vars
\* "aa" was split between its characters, above a line that stayed
C5_Witness ==
    /\ act = "NewLine" /\ mode = "Insert" /\ prev.mode = "Insert"
    /\ prev.cur_pos = <<1, 0>>
    /\ lines = << <<"a">>, <<"a">>, <<>> >>
    /\ cur_pos = <<0, 1>>

\* C6: Backspace in Insert mode: at (0, r), r > 0, line r is appended to
\* line r-1 and removed and the cursor becomes (length of old line r-1, r-1);
\* at (c, r), 0 < c <= length of line r, the character at c-1 is removed and
\* the cursor becomes (c-1, r).  The other lines are unchanged.
C6_Backspace ==
    (/\ mode = "Insert" /\ CursorInBuffer
     /\ (CurCol > 0 \/ CurRow > 0)
     /\ On(Named("Backspace")))
        => LET line == lines[CurRow + 1]
           IN  /\ status' = "running" /\ mode' = "Insert"
               /\ IF CurCol = 0
                  THEN LET above == lines[CurRow]
                       IN  /\ lines' = LinesBefore(CurRow - 1)
                                         \o <<above \o line>>
                                         \o LinesAfter(CurRow)
                           /\ cur_pos' = <<Len(above), CurRow - 1>>
                  ELSE /\ lines' = LinesBefore(CurRow)
                                     \o <<SubSeq(line, 1, CurCol - 1)
                                            \o SubSeq(line, CurCol + 1,
                                                      Len(line))>>
                                     \o LinesAfter(CurRow)
                       /\ cur_pos' = <<CurCol - 1, CurRow>>
C6_BackspaceDeletes == [][C6_Backspace]_vars
\* The lines "a" and " " were joined from the start of the second one
C6_Witness ==
    /\ act = "DeleteChar" /\ mode = "Insert" /\ prev.mode = "Insert"
    /\ prev.cur_pos = <<0, 1>>
    /\ lines = << <<"a", " ">> >>
    /\ cur_pos = <<1, 0>>

\* C7: in Normal mode `d` `d` on row r of a buffer of n >= 2 lines removes
\* line r alone, sets the cursor row to max(r-1, 0) and leaves the mode.
C7_DeleteLine ==
    (/\ mode = "Normal" /\ waiting_cmd = Some("d")
     /\ Len(lines) >= 2 /\ CurRow \in 0..(Len(lines) - 1)
     /\ On(Char("d")))
        => /\ status' = "running" /\ mode' = "Normal"
           /\ lines' = LinesBefore(CurRow) \o LinesAfter(CurRow)
           /\ Len(lines') = Len(lines) - 1
           /\ cur_pos'[2] = (IF CurRow = 0 THEN 0 ELSE CurRow - 1)
C7_DdRemovesLine == [][C7_DeleteLine]_vars
\* The middle one of three lines was deleted
C7_Witness ==
    /\ act = "DeleteCurrentLine" /\ mode = "Normal"
    /\ prev.waiting_cmd = Some("d") /\ prev.cur_pos[2] = 1
    /\ lines = << <<"a">>, <<" ">> >>
    /\ cur_pos[2] = 0

\* C8: Backspace in Insert mode with the cursor at (0, 0) leaves buffer and
\* cursor unchanged and does not fail, whatever line 0 holds.
C8_NoOp ==
    (/\ mode = "Insert" /\ Len(lines) >= 1
     /\ cur_pos = <<0, 0>>
     /\ On(Named("Backspace")))
        => /\ status' = "running"
           /\ lines' = lines /\ cur_pos' = cur_pos
C8_BackspaceAtOrigin == [][C8_NoOp]_vars


\* C9: movement at a boundary, in Normal or Visual mode: move-left at column
\* 0 keeps the column 0; move-up at row 0 keeps the row 0; move-right with
\* the column equal to the line's length keeps the column at that length;
\* none of them changes the buffer or the mode.
C9_MoveLeftAtBoundary ==
    (status' = "running" /\ act' = "MoveLeft" /\ CurCol = 0
     /\ OnKey({Char("h"), Named("Left")}))
        => cur_pos' = cur_pos /\ lines' = lines /\ mode' = mode
C9_MoveUpAtBoundary ==
    (status' = "running" /\ act' = "MoveUp" /\ CurRow = 0
     /\ OnKey({Char("k"), Named("Up")}))
        => /\ cur_pos'[2] = 0 /\ lines' = lines /\ mode' = mode
           /\ CursorInBuffer => cur_pos' = cur_pos
\* The original claim: the column stays at the line's length for every line
\* length and terminal size
C9_MoveRightStays ==
    (status' = "running" /\ act' = "MoveRight" /\ CursorInBuffer
     /\ CurCol = Len(lines[CurRow + 1])
     /\ OnKey({Char("l"), Named("Right")}))
        => cur_pos' = cur_pos /\ lines' = lines /\ mode' = mode
C9_BoundaryMovesStay ==
    [][C9_MoveLeftAtBoundary /\ C9_MoveUpAtBoundary /\ C9_MoveRightStays]_vars
\* As amended: the column stays at the line's length when that is less than
\* the visible width, and becomes the visible width less one when it is not
C9_MoveRightClamps ==
    (status' = "running" /\ act' = "MoveRight" /\ CursorInBuffer
     /\ CurCol = Len(lines[CurRow + 1])
     /\ OnKey({Char("l"), Named("Right")}))
        => /\ cur_pos'[2] = CurRow /\ lines' = lines /\ mode' = mode
           /\ cur_pos'[1] = (IF CurCol < vwidth(Ed) THEN CurCol
                             ELSE vwidth(Ed) - 1)
C9_BoundaryMovesClamp ==
    [][C9_MoveLeftAtBoundary /\ C9_MoveUpAtBoundary /\ C9_MoveRightClamps]_vars
\* Move-right at the end of "aa" in a viewport two columns wide went back to
\* column 1
C9_Witness ==
    /\ status = "running" /\ act = "MoveRight"
    /\ lines = << <<"a", "a">> >>
    /\ prev.cur_pos = <<2, 0>> /\ cur_pos = <<1, 0>>
    /\ vwidth(Ed) = 2

\* The text is "q" or "wq" between any number of blanks
IsQuitText(text) ==
    \E i, j \in 0..Len(text) :
        /\ i + j <= Len(text)
        /\ \A k \in 1..i : text[k] = " "
        /\ \A k \in (Len(text) - j + 1)..Len(text) : text[k] = " "
        /\ SubSeq(text, i + 1, Len(text) - j) \in {<<"q">>, <<"w", "q">>}

\* C10: Enter in Command mode: when the trimmed command line is "q" or "wq"
\* the loop ends; for every other text, the empty one too, the editor
\* returns to Normal mode without failing; the text buffer is unchanged and
\* the command line is cleared in both cases.
C10_Enter ==
    (mode = "Command" /\ On(Named("Enter")))
        => /\ command_buffer' = <<>>
           /\ lines' = lines
           /\ IF IsQuitText(command_buffer)
              THEN status' = "quit"
              ELSE status' = "running" /\ mode' = "Normal"
C10_EnterResolvesCommand == [][C10_Enter]_vars
\* The loop ended on a command
C10_Witness == status = "quit" /\ act = "Quit" /\ prev.mode = "Command"

\* C11: submitting "wq" in Command mode saves the buffer before the Quit
\* takes effect: the iteration that reads the Enter calls Buffer::save
\* before the loop ends.
C11_Save ==
    (/\ mode = "Command" /\ trim(command_buffer) = <<"w", "q">>
     /\ On(Named("Enter")))
        => saves' > saves
C11_WqSaves == [][C11_Save]_vars

\* C12: when Command mode was entered by `:` with the cursor at p, then
\* whatever was typed, erased or resized since, the event that returns to
\* Normal mode (Escape, Ctrl-C, Backspace on an empty command line, Enter on
\* a text that is no command) does so without failing and leaves the cursor
\* at p, the command line empty and the text buffer as it was at the `:`.
C12_Return ==
    (/\ mode = "Command"
     /\ \/ OnKey({Named("Esc"), CtrlC})
        \/ On(Named("Backspace")) /\ command_buffer = <<>>
        \/ On(Named("Enter")) /\ ~IsQuitText(command_buffer))
        => /\ status' = "running" /\ mode' = "Normal"
           /\ IsSome(entered)
           /\ cur_pos' = Unwrap(entered).cur_pos
           /\ lines' = Unwrap(entered).lines
           /\ command_buffer' = <<>>
C12_Entry ==
    (mode # "Command" /\ mode' = "Command")
        => /\ On(Char(":"))
           /\ entered' = Some([cur_pos |-> cur_pos, lines |-> lines])
C12_CommandRestoresCursor == [][C12_Entry /\ C12_Return]_vars
\* Command mode was left for a cursor away from the origin
C12_Witness ==
    /\ status = "running" /\ mode = "Normal"
    /\ prev.mode = "Command" /\ act = "EnterMode"
    /\ cur_pos = <<1, 1>>

\* The editor after the key and then Escape, from the current state: ok when
\* both iterations ran to their end, mid the mode between the two keys
C13_After(key) ==
    LET o1 == loop_body(Ed, Char(key))
        o2 == loop_body(o1.e, Named("Esc"))
    IN  [ok |-> /\ o1.status = "running" /\ ~draw_panics(o1.e)
                /\ o2.status = "running",
         mid |-> o1.e.mode,
         e |-> o2.e]
\* C13: from Normal mode with no leader pending, `v` Escape and `:` Escape
\* leave buffer, cursor, anchor, command line, pending leader and mode as
\* they were, and `i` Escape changes the column alone, to max(column-1, 0).
C13_EnterLeaveIdentity ==
    (/\ status = "running" /\ mode = "Normal" /\ waiting_cmd = None
     /\ ~draw_panics(Ed))
        => /\ C13_After("v").ok /\ C13_After("v").mid = "Visual"
           /\ C13_After("v").e = Ed
           /\ C13_After(":").ok /\ C13_After(":").mid = "Command"
           /\ C13_After(":").e = Ed
           /\ C13_After("i").ok /\ C13_After("i").mid = "Insert"
           /\ C13_After("i").e =
                [Ed EXCEPT !.cur_pos = <<IF CurCol = 0 THEN 0 ELSE CurCol - 1,
                                        CurRow>>]
\* Insert mode was entered by `i` at column 1 and left at once
C13_Witness ==
    /\ status = "running" /\ mode = "Normal"
    /\ prev.mode = "Insert" /\ act = "EnterMode"
    /\ prev.cur_pos[1] = 1 /\ cur_pos[1] = 0
    /\ C13_After("i").ok

\* C14: once the process has ended (Quit, an error returned by Editor::new
\* or by run, a panic) the terminal is out of raw mode and back on the
\* primary screen.
C14_TerminalRestored ==
    status # "running" => ~raw_mode /\ ~alternate_screen

\* The buffer after insert_char(CurCol, CurRow, c) as claimed: unchanged when
\* the row is no line, c inserted at the column when that is at most the
\* line's length, c appended to the line when it is more
C15_Inserted(c) ==
    IF ~ULt(CurRow, Len(lines)) THEN lines
    ELSE LET line == lines[CurRow + 1]
             at == IF ULe(CurCol, Len(line)) THEN CurCol ELSE Len(line)
         IN  SetAt(lines, CurRow, InsertAt(line, at, c))
\* C15: typing a character in Insert mode never fails and inserts it at the
\* column, or at the end of the line when the column is past it.
C15_Typing ==
    \A c \in TextChars :
        (mode = "Insert" /\ On(Char(c)))
            => status' = "running" /\ lines' = C15_Inserted(c)
C15_InsertNeverFails == [][C15_Typing]_vars

\* C16: `x` in Normal mode with the cursor on no character of the buffer (the
\* row is no line, or the column is at or past the line's length) changes
\* nothing and does not fail.
C16_NoChar ==
    (/\ mode = "Normal" /\ waiting_cmd = None
     /\ \/ ~ULt(CurRow, Len(lines))
        \/ ~ULt(CurCol, Len(lines[CurRow + 1]))
     /\ On(Char("x")))
        => status' = "running" /\ lines' = lines /\ cur_pos' = cur_pos
C16_DeleteOutOfRange == [][C16_NoChar]_vars

\* C17: a resize event, in every mode, sets the known terminal size and
\* changes nothing else: it produces no action and leaves buffer, cursor,
\* mode, command line and pending leader as they were.
C17_Resize ==
    \A sz \in TermSizes :
        On(Resize(sz))
            => /\ size' = sz /\ act' = "None" /\ status' = "running"
               /\ lines' = lines /\ cur_pos' = cur_pos /\ mode' = mode
               /\ command_buffer' = command_buffer
               /\ waiting_cmd' = waiting_cmd
C17_ResizeChangesSizeOnly == [][C17_Resize]_vars

\* C18: the command line holds text in Command mode only: in every state
\* whose mode is Normal, Insert or Visual it is empty, whichever way Command
\* mode was left.
C18_CommandBufferEmpty == mode # "Command" => command_buffer = <<>>
\* Command mode was left for Normal mode with text on the command line
C18_Witness ==
    /\ status = "running" /\ mode = "Normal"
    /\ prev.mode = "Command" /\ prev.typed /\ act = "EnterMode"

\* The movement actions of h/j/k/l and the arrows
C19_Moves == {"MoveUp", "MoveDown", "MoveLeft", "MoveRight"}
\* C19: after a movement action in Normal or Visual mode, taken with the
\* cursor in the buffer, the column is at most the line's length and at most
\* visible_width-1, the row is at most line_count-1 and at most
\* visible_height-1; move-down with no next line leaves the cursor as it was.
C19_Clamps ==
    (/\ mode \in {"Normal", "Visual"} /\ CursorInBuffer
     /\ Iterate
     /\ act' \in C19_Moves /\ status' = "running")
        => /\ cur_pos'[2] >= 0
           /\ cur_pos'[2] <= Len(lines') - 1
           /\ cur_pos'[2] <= vheight(Ed) - 1
           /\ cur_pos'[1] >= 0
           /\ cur_pos'[1] <= Len(lines'[cur_pos'[2] + 1])
           /\ cur_pos'[1] <= vwidth(Ed) - 1
           /\ (act' = "MoveDown" /\ CurRow + 1 >= Len(lines))
                => cur_pos' = cur_pos
C19_MovementClamps == [][C19_Clamps]_vars

\* C20: in Normal mode with the cursor on row r of the buffer, `o` inserts an
\* empty line at r+1 and puts the cursor at (0, r+1), `O` inserts an empty
\* line at r and puts the cursor at (0, r); the mode becomes Insert, the
\* other lines keep content and order, the cursor is on the new line.
C20_Open ==
    (mode = "Normal" /\ waiting_cmd = None /\ CurRow \in 0..(Len(lines) - 1))
        => /\ On(Char("o"))
                => /\ status' = "running" /\ mode' = "Insert"
                   /\ lines' = SubSeq(lines, 1, CurRow + 1) \o << <<>> >>
                                 \o SubSeq(lines, CurRow + 2, Len(lines))
                   /\ cur_pos' = <<0, CurRow + 1>>
                   /\ Len(lines') = Len(lines) + 1
           /\ On(Char("O"))
                => /\ status' = "running" /\ mode' = "Insert"
                   /\ lines' = SubSeq(lines, 1, CurRow) \o << <<>> >>
                                 \o SubSeq(lines, CurRow + 1, Len(lines))
                   /\ cur_pos' = <<0, CurRow>>
                   /\ Len(lines') = Len(lines) + 1
C20_OpenLine == [][C20_Open]_vars
\* A line was opened below the first of two lines, between them
C20_Witness ==
    /\ act = "OpenLineBelow" /\ mode = "Insert" /\ prev.mode = "Normal"
    /\ prev.cur_pos[2] = 0
    /\ lines = << <<"a">>, <<>>, <<" ">> >>
    /\ cur_pos = <<0, 1>>

\* C21: the anchor scur_pos is present exactly when the mode is Command, in
\* every reachable state; so the action that returns from Command mode to
\* Normal mode finds an anchor and does not fail.
C21_Return ==
    (mode = "Command" /\ Iterate /\ act' = "EnterMode")
        => /\ IsSome(scur_pos)
           /\ status' = "running" /\ mode' = "Normal"
           /\ cur_pos' = Unwrap(scur_pos)
C21_AnchorIffCommand ==
    [](IsSome(scur_pos) <=> mode = "Command") /\ [][C21_Return]_vars
\* Command mode, entered from a cursor away from the origin, was left and
\* the anchor is gone
C21_Witness ==
    /\ status = "running" /\ mode = "Normal"
    /\ prev.mode = "Command" /\ act = "EnterMode"
    /\ scur_pos = None /\ cur_pos[1] > 0

\* The editor after Enter and then Backspace, from the current state: ok when
\* both iterations ran to their end
C22_After ==
    LET o1 == loop_body(Ed, Named("Enter"))
        o2 == loop_body(o1.e, Named("Backspace"))
    IN  [ok |-> /\ o1.status = "running" /\ o1.kind = "NewLine"
                /\ ~draw_panics(o1.e)
                /\ o2.status = "running" /\ o2.kind = "DeleteChar",
         e |-> o2.e]
\* C22: in Insert mode with the cursor at (c, r), r a row of the buffer and
\* c at most the length of line r, Enter followed at once by Backspace
\* gives back the buffer and the cursor, and neither key fails.
C22_EnterBackspaceIdentity ==
    (/\ status = "running" /\ mode = "Insert" /\ CursorInBuffer
     /\ ~draw_panics(Ed))
        => /\ C22_After.ok
           /\ C22_After.e.lines = lines
           /\ C22_After.e.cur_pos = cur_pos
\* "aa" was split between its characters and joined again
C22_Witness ==
    /\ status = "running" /\ mode = "Insert" /\ act = "DeleteChar"
    /\ prev.mode = "Insert" /\ prev.cur_pos = <<0, 1>>
    /\ lines = << <<"a", "a">> >> /\ cur_pos = <<1, 0>>
    /\ C22_After.ok

====
